---- MODULE Spec2Model ----
(***************************************************************************)
(* Sliding-window rate limiter of backend/middleware/rate_limiting.py:     *)
(* class RateLimiter with its in-process store (_memory_store) and its     *)
(* shared store (a Redis sorted set per key).                              *)
(*                                                                         *)
(* Time.  time.time() is a float; the model counts it in ticks of          *)
(* 1/TicksPerSecond second.  int(x) of a non-negative float is the whole   *)
(* number of seconds below it (IntOf).  Timestamps kept by the in-process  *)
(* store are ticks; scores kept by the shared store are whole seconds.     *)
(***************************************************************************)
EXTENDS Integers, Sequences, FiniteSets, TLC

\* ----------------------------------------------------------------- bounds
TicksPerSecond == 3
MaxLimit == 2
MaxRequests == 4
MaxAdvances == 2
MaxFailures == 2
MaxCalls == 3
NumThreads == 2
MaxThreadAdvances == 1
MaxHeaderLen == 3
MaxServed == 3

\* ------------------------------------------------------ program constants
MINUTE_WINDOW == 60
HOUR_WINDOW == 3600

Windows == {"minute", "hour"}
WindowSeconds(window) == IF window = "minute" THEN MINUTE_WINDOW ELSE HOUR_WINDOW

Identifiers == {"ip:1.2.3.4"}
Endpoints == {"/api/v1/agents/"}
Limits == 0..MaxLimit

VARIABLES
    now,                  \* time.time(), in ticks
    storage_backend,      \* self.storage_backend
    redis_client,         \* self._redis_client is not None
    requests_per_minute,  \* self.requests_per_minute
    requests_per_hour,    \* self.requests_per_hour
    memory_store,         \* self._memory_store: key -> sequence of timestamps (ticks)
    redis_store,          \* the Redis server: key -> [members, expire_at]
    last,                 \* what the last check_rate_limit call returned
    admitted,             \* history: the window checks that returned allowed
    oracle_store,         \* the _memory_store of an in-process limiter fed the same requests
    oracle_last,          \* what that limiter returned for the last request
    outage,               \* history: every shared-backend call so far has failed
    redis_up,             \* the Redis server can be reached at all
    nfail,                \* number of shared-backend calls that failed while it can
    nreq,                 \* number of check_rate_limit calls made
    nadv,                 \* number of clock advances made
    frames,               \* the threads inside _check_limit_memory (SpecThreads)
    http,                 \* the request RateLimitMiddleware.dispatch is handling
    instances,            \* the RateLimiter objects of one process and their dicts
    middleware,           \* the RateLimitMiddleware object: its exempt paths
    granted,              \* history: the requests check_rate_limit allowed
    solo                  \* per identity: an in-process limiter given its requests only

vars == <<now, storage_backend, redis_client, requests_per_minute, requests_per_hour,
          memory_store, redis_store, last, admitted, oracle_store, oracle_last,
          outage, redis_up, nfail, nreq, nadv, frames, http, instances, middleware, granted, solo>>

config == <<storage_backend, redis_client, requests_per_minute, requests_per_hour,
            redis_up>>

\* ---------------------------------------------------------------- helpers
Range(s) == {s[i] : i \in DOMAIN s}
Min(S) == CHOOSE x \in S : \A y \in S : x <= y
\* A max that forgets its first argument.
SecondOnly(a, b) == b
\* max(a, b)
Max0(a, b) == IF a >= b THEN a ELSE b
Secs(s) == s * TicksPerSecond
\* int(x) for a float x >= 0 given in ticks: whole seconds, fraction dropped.
IntOf(ticks) == ticks \div TicksPerSecond

EmptyMap == [k \in {} |-> <<>>]

\* _get_key: md5 of the composite string.  The digest is kept as the string
\* it was computed from (no two composite strings of the model share a digest).
GetKey(identifier, endpoint, window) ==
    "ratelimit:" \o identifier \o ":" \o endpoint \o ":" \o window

\* ---------------------------------------------- _get_client_identifier
\* An optional value (None or a string) is a sequence of at most one string.
None == <<>>
Some(v) == <<v>>

\* request.headers.get(name)
HeadersGet(headers, name) == IF name \in DOMAIN headers THEN Some(headers[name]) ELSE None

\* `if value:` for an optional string: neither None nor the empty string.
Truthy(value) == value # None /\ value[1] # ""

\* The part of s after its first character.
Rest(s) == SubSeq(s, 2, Len(s))

\* s.split(sep)[-1]: what follows the last separator.
RECURSIVE SplitLast(_, _)
SplitLast(s, sep) ==
    IF s = "" THEN ""
    ELSE IF SubSeq(s, Len(s), Len(s)) = sep THEN ""
    ELSE SplitLast(SubSeq(s, 1, Len(s) - 1), sep) \o SubSeq(s, Len(s), Len(s))

\* s.split(sep)[0]: what precedes the first separator.
RECURSIVE SplitFirst(_, _)
SplitFirst(s, sep) ==
    IF s = "" THEN ""
    ELSE IF SubSeq(s, 1, 1) = sep THEN ""
    ELSE SubSeq(s, 1, 1) \o SplitFirst(Rest(s), sep)

RECURSIVE LStrip(_)
LStrip(s) == IF s # "" /\ SubSeq(s, 1, 1) = " " THEN LStrip(Rest(s)) ELSE s

RECURSIVE RStrip(_)
RStrip(s) ==
    IF s # "" /\ SubSeq(s, Len(s), Len(s)) = " "
    THEN RStrip(SubSeq(s, 1, Len(s) - 1)) ELSE s

\* s.strip()
Strip(s) == RStrip(LStrip(s))

\* An identity that depends on the number of requests checked so far.
IdentifierByCallCount(request) == "ip:" \o ToString(nreq)

\* lines 47-61.  A request is [path, headers, client]: client is None or the
\* peer address (request.client.host).
GetClientIdentifier(request) ==
    LET user_id == HeadersGet(request.headers, "X-User-ID")
    IN IF Truthy(user_id)
       THEN "user:" \o user_id[1]
       ELSE LET peer_ip == IF request.client # None THEN request.client[1]
                           ELSE "unknown"
                forwarded_for == HeadersGet(request.headers, "X-Forwarded-For")
                client_ip == IF Truthy(forwarded_for)
                             THEN Strip(SplitFirst(forwarded_for[1], ","))
                             ELSE peer_ip
            IN "ip:" \o client_ip

\* ------------------------------------------------- _check_limit_memory
\* A prune that keeps nothing.
IsLiveNever(timestamp, window_start) == FALSE

\* line 79: the entries that stay after the prune.
IsLiveMemory(timestamp, window_start) == timestamp > window_start

\* A limit test that lets one request too many through.
LimitExceededOffByOne(request_count, limit) == request_count > limit

\* line 84
LimitExceeded(request_count, limit) == request_count >= limit

\* A reset time that forgets the window length.
ResetWithoutWindow(oldest_request, window_seconds) == IntOf(oldest_request)

\* lines 86-87: reset time of a rejection.
ResetOfOldest(oldest_request, window_seconds) ==
    IntOf(oldest_request + Secs(window_seconds))

\* A reset time of an admission that forgets the window length.
ResetAtAdmission(current_time, window_seconds) == IntOf(current_time)

\* line 92: reset time of an admission.
ResetOfAdmitted(current_time, window_seconds) ==
    IntOf(current_time + Secs(window_seconds))

\* A prune that sweeps the lists of all keys.
PruneEveryKey(store, key, window_seconds, current_time) ==
    LET s0 == IF key \in DOMAIN store THEN store ELSE store @@ (key :> <<>>)
        window_start == current_time - Secs(window_seconds)
    IN [k \in DOMAIN s0 |-> SelectSeq(s0[k], LAMBDA t : IsLiveMemory(t, window_start))]

\* A prune that also drops every other key that has no entry left in the
\* window.
PruneAndDropKeys(store, key, window_seconds, current_time) ==
    LET s0 == IF key \in DOMAIN store THEN store ELSE store @@ (key :> <<>>)
        window_start == current_time - Secs(window_seconds)
        kept == {k \in DOMAIN s0 :
                    k = key \/ \E t \in Range(s0[k]) : IsLiveMemory(t, window_start)}
    IN [k \in kept |->
            IF k = key THEN SelectSeq(s0[k], LAMBDA t : IsLiveMemory(t, window_start))
            ELSE s0[k]]

\* lines 72-80: the store after "create the key if absent, drop old entries".
PruneMemory(store, key, window_seconds, current_time) ==
    LET s0 == IF key \in DOMAIN store THEN store ELSE store @@ (key :> <<>>)
        window_start == current_time - Secs(window_seconds)
    IN [s0 EXCEPT ![key] =
            SelectSeq(s0[key], LAMBDA t : IsLiveMemory(t, window_start))]

\* A check that records the request before it tests the limit.
CheckLimitMemoryRecordFirst(store, key, limit, window_seconds, current_time) ==
    LET s1 == PruneMemory(store, key, window_seconds, current_time)
        request_count == Len(s1[key])
        s2 == [s1 EXCEPT ![key] = Append(s1[key], current_time)]
    IN IF LimitExceeded(request_count, limit)
       THEN [store |-> s2, allowed |-> FALSE, count |-> request_count,
             reset |-> ResetOfOldest(Min(Range(s2[key])), window_seconds)]
       ELSE [store |-> s2, allowed |-> TRUE, count |-> request_count + 1,
             reset |-> ResetOfAdmitted(current_time, window_seconds)]

\* lines 68-92.  current_time is the value time.time() returns at line 70.
CheckLimitMemory(store, key, limit, window_seconds, current_time) ==
    LET s1 == PruneMemory(store, key, window_seconds, current_time)
        request_count == Len(s1[key])
    IN IF LimitExceeded(request_count, limit)
       THEN LET oldest_request == IF s1[key] # <<>> THEN Min(Range(s1[key]))
                                  ELSE current_time
            IN [store |-> s1, allowed |-> FALSE, count |-> request_count,
                reset |-> ResetOfOldest(oldest_request, window_seconds)]
       ELSE [store |-> [s1 EXCEPT ![key] = Append(s1[key], current_time)],
             allowed |-> TRUE, count |-> request_count + 1,
             reset |-> ResetOfAdmitted(current_time, window_seconds)]

\* -------------------------------------------------- the Redis sorted set
\* A key holds a sorted set; every member the limiter adds is str(score), so a
\* member is identified with its score (whole seconds) and the set is a set
\* of scores.  EXPIRE makes the key vanish once the server clock reaches
\* expire_at.
RedisMembers(red, key, at) ==
    IF key \in DOMAIN red /\ at < red[key].expire_at THEN red[key].members ELSE {}

\* line 106: ZREMRANGEBYSCORE key 0 window_start removes min <= score <= max.
ZRemRangeByScore(members, min, max) == {s \in members : ~(min <= s /\ s <= max)}

\* line 108: ZADD key {str(current_time): current_time}; adding a member that
\* is already there only rewrites its score.
ZAdd(members, current_time) == members \cup {current_time}

\* The pipeline with an expiry of one second whatever the window.
RedisPipelineShortExpiry(red, key, window_seconds, current_time, at) ==
    LET window_start == current_time - window_seconds
        removed == ZRemRangeByScore(RedisMembers(red, key, at), 0, window_start)
    IN [store |-> (key :> [members |-> ZAdd(removed, current_time),
                           expire_at |-> at + Secs(1)]) @@ red,
        results1 |-> Cardinality(removed)]

\* lines 105-110: the MULTI/EXEC pipeline, run by the server at clock `at`.
\* results1 is results[1], the reply of ZCARD.
RedisPipeline(red, key, window_seconds, current_time, at) ==
    LET window_start == current_time - window_seconds
        removed == ZRemRangeByScore(RedisMembers(red, key, at), 0, window_start)
    IN [store |-> (key :> [members |-> ZAdd(removed, current_time),
                           expire_at |-> at + Secs(window_seconds)]) @@ red,
        results1 |-> Cardinality(removed)]

\* What the shared backend does with one _check_limit_redis invocation:
\*   pipe   "ok"               the pipeline runs and its replies arrive
\*          "ConnectionError"  the pipeline raises before the server ran it
\*          "TimeoutError"     the server ran it, the reply did not arrive
\*   zrange "ok" / "ResponseError": the ZRANGE call of line 115, when made
OkOutcome == [pipe |-> "ok", zrange |-> "ok"]
DownOutcome == [pipe |-> "ConnectionError", zrange |-> "ok"]
RedisOutcomes ==
    {OkOutcome, [pipe |-> "ok", zrange |-> "ResponseError"],
     [pipe |-> "ConnectionError", zrange |-> "ok"],
     [pipe |-> "TimeoutError", zrange |-> "ok"]}

\* An except clause that names the connection errors only.
CaughtConnectionErrors == {"ConnectionError", "TimeoutError"}

\* line 124: `except Exception` catches every exception a Redis call raises.
CaughtExceptions == {"ConnectionError", "TimeoutError", "ResponseError"}

\* The result of one window check: the two stores after it, the returned
\* triple, the store that decided (via), whether an exception left the call
\* (raised), whether the shared backend answered a call of it (shared_ok) and
\* whether a call to it raised (failed).
WindowResult(mem, red, allowed, count, reset, via, raised, shared_ok, failed) ==
    [memory |-> mem, redis |-> red, allowed |-> allowed, count |-> count,
     reset |-> reset, via |-> via, raised |-> raised, shared_ok |-> shared_ok,
     failed |-> failed]

ViaMemory(mem, red, key, limit, window_seconds, at, shared_ok, failed) ==
    LET r == CheckLimitMemory(mem, key, limit, window_seconds, at)
    IN WindowResult(r.store, red, r.allowed, r.count, r.reset, "memory", FALSE,
                    shared_ok, failed)

\* An except clause that fails closed: the failure becomes a rejection.
OnExceptionFailClosed(mem, red, key, limit, window_seconds, at, exc, shared_ok) ==
    WindowResult(mem, red, FALSE, limit, IntOf(at) + window_seconds, "redis", FALSE,
                 shared_ok, TRUE)

\* lines 124-126: the except clause; an exception it does not catch leaves
\* _check_limit_redis.
OnException(mem, red, key, limit, window_seconds, at, exc, shared_ok) ==
    IF exc \in CaughtExceptions
    THEN ViaMemory(mem, red, key, limit, window_seconds, at, shared_ok, TRUE)
    ELSE WindowResult(mem, red, FALSE, 0, 0, "none", TRUE, shared_ok, TRUE)

\* lines 94-126.  `at` is the clock (ticks) during the call, oc what the
\* shared backend does with it.
CheckLimitRedis(mem, red, client, key, limit, window_seconds, at, oc) ==
    IF ~client
    THEN ViaMemory(mem, red, key, limit, window_seconds, at, FALSE, FALSE)
    ELSE
    LET current_time == IntOf(at)
        p == RedisPipeline(red, key, window_seconds, current_time, at)
        red1 == IF oc.pipe = "ConnectionError" THEN red ELSE p.store
        request_count == p.results1
    IN IF oc.pipe # "ok"
       THEN OnException(mem, red1, key, limit, window_seconds, at, oc.pipe, FALSE)
       ELSE IF LimitExceeded(request_count, limit)
       THEN IF oc.zrange # "ok"
            THEN OnException(mem, red1, key, limit, window_seconds, at, oc.zrange, TRUE)
            ELSE LET oldest == RedisMembers(red1, key, at)
                     reset_time == IF oldest # {} THEN Min(oldest) + window_seconds
                                   ELSE current_time + window_seconds
                 IN WindowResult(mem, red1, FALSE, request_count, reset_time,
                                 "redis", FALSE, TRUE, FALSE)
       ELSE WindowResult(mem, red1, TRUE, request_count + 1,
                         current_time + window_seconds, "redis", FALSE, TRUE, FALSE)

\* ------------------------------------------------------ check_rate_limit
\* lines 145-149 and 153-157: the backend a window check runs on.
WindowCheck(mem, red, key, limit, window_seconds, at, oc) ==
    IF storage_backend = "redis"
    THEN CheckLimitRedis(mem, red, redis_client, key, limit, window_seconds, at, oc)
    ELSE ViaMemory(mem, red, key, limit, window_seconds, at, FALSE, FALSE)

\* A verdict that lets a request through when one window allows it.
AllowedByEitherWindow(allowed_minute, allowed_hour) == allowed_minute \/ allowed_hour

\* A verdict that leaves the hour window out.
AllowedByMinuteOnly(allowed_minute, allowed_hour) == allowed_minute

\* line 160
IsAllowed(allowed_minute, allowed_hour) == allowed_minute /\ allowed_hour

\* A selection that reports the hour window before the minute window.
MergeDecisionHourFirst(minute, hour, per_minute, per_hour) ==
    IF ~hour.allowed
    THEN [allowed |-> IsAllowed(minute.allowed, hour.allowed), limit |-> per_hour,
          remaining |-> Max0(0, per_hour - hour.count), reset |-> hour.reset]
    ELSE [allowed |-> IsAllowed(minute.allowed, hour.allowed), limit |-> per_minute,
          remaining |-> Max0(0, per_minute - minute.count), reset |-> minute.reset]

\* lines 159-181: the verdict and the figures of the binding window.
MergeDecision(minute, hour, per_minute, per_hour) ==
    IF ~minute.allowed
    THEN [allowed |-> IsAllowed(minute.allowed, hour.allowed), limit |-> per_minute,
          remaining |-> Max0(0, per_minute - minute.count), reset |-> minute.reset]
    ELSE IF ~hour.allowed
    THEN [allowed |-> IsAllowed(minute.allowed, hour.allowed), limit |-> per_hour,
          remaining |-> Max0(0, per_hour - hour.count), reset |-> hour.reset]
    ELSE [allowed |-> IsAllowed(minute.allowed, hour.allowed), limit |-> per_minute,
          remaining |-> per_minute - minute.count, reset |-> minute.reset]

NoDecision == [allowed |-> FALSE, limit |-> 0, remaining |-> 0, reset |-> 0]

\* What `last` keeps of a window check.
View(r, key, ran) ==
    [ran |-> ran, key |-> key, allowed |-> r.allowed, count |-> r.count,
     reset |-> r.reset, via |-> r.via, failed |-> r.failed]
NoView == [ran |-> FALSE, key |-> "", allowed |-> FALSE, count |-> 0, reset |-> 0,
           via |-> "none", failed |-> FALSE]

\* lines 128-183 for an in-process limiter: the oracle of the fallback.
OracleCheck(store, identifier, endpoint, at) ==
    LET m == CheckLimitMemory(store, GetKey(identifier, endpoint, "minute"),
                              requests_per_minute, MINUTE_WINDOW, at)
        h == CheckLimitMemory(m.store, GetKey(identifier, endpoint, "hour"),
                              requests_per_hour, HOUR_WINDOW, at)
    IN [store |-> h.store,
        decision |-> MergeDecision(m, h, requests_per_minute, requests_per_hour)]

\* The store of the limiter that is given the requests of `identifier` only.
SoloStore(identifier) ==
    IF identifier \in DOMAIN solo THEN solo[identifier].store ELSE EmptyMap

\* lines 128-183.  ocm and och are what the shared backend does with the
\* minute check and with the hour check.  Each intermediate value is bound
\* once, by a quantifier over a one-element set.
CheckRateLimit(identifier, endpoint, ocm, och) ==
    \E minute_key \in {GetKey(identifier, endpoint, "minute")} :
    \E hour_key \in {GetKey(identifier, endpoint, "hour")} :
    \E m \in {WindowCheck(memory_store, redis_store, minute_key,
                         requests_per_minute, MINUTE_WINDOW, now, ocm)} :
    \E h \in {WindowCheck(m.memory, m.redis, hour_key,
                         requests_per_hour, HOUR_WINDOW, now, och)} :
    \E raised \in {m.raised \/ h.raised} :
    \E d \in {IF raised THEN NoDecision
             ELSE MergeDecision(m, h, requests_per_minute, requests_per_hour)} :
    \E o \in {OracleCheck(oracle_store, identifier, endpoint, now)} :
       /\ memory_store' = IF m.raised THEN m.memory ELSE h.memory
       /\ redis_store' = IF m.raised THEN m.redis ELSE h.redis
       /\ last' = [n |-> nreq + 1, identifier |-> identifier, endpoint |-> endpoint,
                   at |-> now, raised |-> raised,
                   allowed |-> d.allowed, limit |-> d.limit,
                   remaining |-> d.remaining, reset |-> d.reset,
                   minute |-> View(m, minute_key, TRUE),
                   hour |-> IF m.raised THEN NoView ELSE View(h, hour_key, TRUE)]
       /\ admitted' = admitted
              \o (IF m.allowed /\ ~m.raised
                  THEN <<[key |-> minute_key, window |-> "minute", at |-> now]>>
                  ELSE <<>>)
              \o (IF ~m.raised /\ h.allowed /\ ~h.raised
                  THEN <<[key |-> hour_key, window |-> "hour", at |-> now]>>
                  ELSE <<>>)
       /\ granted' = IF d.allowed /\ ~raised
                     THEN Append(granted, [identifier |-> identifier,
                                           endpoint |-> endpoint, at |-> now])
                     ELSE granted
       /\ oracle_store' = o.store
       /\ oracle_last' = o.decision
       /\ solo' = (identifier :> OracleCheck(SoloStore(identifier), identifier, endpoint, now))
                      @@ solo
       /\ outage' = (outage /\ ~m.shared_ok /\ (m.raised \/ ~h.shared_ok))
       /\ nfail' = IF redis_up
                   THEN nfail + (IF m.failed THEN 1 ELSE 0)
                              + (IF ~m.raised /\ h.failed THEN 1 ELSE 0)
                   ELSE nfail

\* ------------------------------------------- several RateLimiter objects
\* The objects of a process: `dicts` maps the address of each dict object to
\* its content, `store_of` gives the dict that the attribute _memory_store of
\* each RateLimiter refers to, `last` the decision of each limiter's latest
\* check_rate_limit call and `caller` the limiter that made the latest call.
\* `solo` and `solo_last` are the store and the latest decision of a limiter
\* that is alone in its process and is given the calls of that limiter only.
InstanceNames == {"a", "b"}

NoInstances ==
    [dicts |-> <<>>, store_of |-> <<>>, last |-> <<>>, solo |-> <<>>,
     solo_last |-> <<>>, caller |-> ""]

\* One dict object that every limiter uses.
SharedDict(dicts) == 1

\* line 34: the display {} makes a new dict object each time it is evaluated.
NewDict(dicts) == Cardinality(DOMAIN dicts) + 1

\* lines 22-34: RateLimiter(...) with the in-process backend.
ConstructInstance(world, name) ==
    LET address == NewDict(world.dicts)
    IN [dicts |-> (address :> EmptyMap) @@ world.dicts,
        store_of |-> (name :> address) @@ world.store_of,
        last |-> (name :> NoDecision) @@ world.last,
        solo |-> (name :> EmptyMap) @@ world.solo,
        solo_last |-> (name :> NoDecision) @@ world.solo_last,
        caller |-> ""]

\* Two limiters constructed one after the other.
TwoLimiters == ConstructInstance(ConstructInstance(NoInstances, "a"), "b")

\* ------------------------------------------- RateLimitMiddleware.__init__
\* line 205: the default exempt_paths.
ExemptPaths == {"/health", "/docs", "/openapi.json", "/redoc"}

\* line 205: exempt_paths or [...]: the default replaces an argument that is
\* falsy, i.e. None or a list without elements.
ConfiguredOrDefault(exempt_paths, default) ==
    IF exempt_paths # None /\ exempt_paths[1] # {} THEN exempt_paths[1] ELSE default

\* lines 189-205: the middleware object; exempt_argument is the parameter
\* exempt_paths as the caller passed it (None, or the prefixes of the list),
\* exempt_paths the attribute self.exempt_paths.
ConstructMiddleware(exempt_paths) ==
    [exempt_argument |-> exempt_paths,
     exempt_paths |-> ConfiguredOrDefault(exempt_paths, ExemptPaths)]

\* ------------------------------------------------------------ the machine
\* lines 22-45: RateLimiter(requests_per_minute, requests_per_hour,
\* storage_backend, redis_url); connects says whether redis.from_url returned.
Construct(per_minute, per_hour, backend, url_given, connects) ==
    /\ requests_per_minute = per_minute
    /\ requests_per_hour = per_hour
    /\ memory_store = EmptyMap
    /\ redis_client = (backend = "redis" /\ url_given /\ connects)
    /\ storage_backend =
          IF backend = "redis" /\ url_given /\ ~connects THEN "memory" ELSE backend

Threads == 1..NumThreads

\* The locals of a thread inside _check_limit_memory; pc is the line it is at.
IdleFrame == [pc |-> "idle", key |-> "", window |-> "", limit |-> 0,
              window_seconds |-> 0, current_time |-> 0, pruned |-> <<>>,
              request_count |-> 0]
IdleFrames == [t \in Threads |-> IdleFrame]

\* The request dispatch is handling: how far it got (phase), the request,
\* the identity derived from it, how often the limiter was invoked for it
\* (evaluations) and what it decided, how often the request was passed to
\* call_next (forwards), what call_next ended with (outcome), whether an
\* exception left dispatch (raised), and the status, the headers that dispatch
\* set and the body of the response returned, the keys derived for it
\* (keys); served counts the requests received.
NoRequest == [path |-> "", headers |-> <<>>, client |-> None]
IdleHttp == [phase |-> "idle", request |-> NoRequest, identity |-> "",
             evaluations |-> 0, decision |-> NoDecision, forwards |-> 0,
             status |-> 0, raised |-> FALSE, outcome |-> "", headers |-> <<>>,
             body |-> "", keys |-> <<>>, served |-> 0]

\* The limiter after construction, with nothing stored and no request made.
InitRateLimiter ==
    /\ now = 0
    /\ \E per_minute \in Limits, per_hour \in Limits, backend \in {"memory", "redis"},
          url_given \in BOOLEAN, connects \in BOOLEAN :
          Construct(per_minute, per_hour, backend, url_given, connects)
    /\ redis_store = EmptyMap
    /\ last = [n |-> 0, identifier |-> "", endpoint |-> "", at |-> 0, raised |-> FALSE,
               allowed |-> FALSE, limit |-> 0, remaining |-> 0, reset |-> 0,
               minute |-> NoView, hour |-> NoView]
    /\ admitted = <<>>
    /\ granted = <<>>
    /\ solo = <<>>
    /\ oracle_store = EmptyMap
    /\ oracle_last = NoDecision
    /\ outage = TRUE
    /\ redis_up \in (IF redis_client THEN BOOLEAN ELSE {TRUE})
    /\ nfail = 0
    /\ nreq = 0
    /\ nadv = 0
    /\ frames = IdleFrames
    /\ http = IdleHttp
    /\ instances = TwoLimiters

\* The state after construction; the middleware is given no exempt_paths.
Init == InitRateLimiter /\ middleware = ConstructMiddleware(None)

\* The outcomes the shared backend can have for a limiter that uses it.
Outcomes ==
    IF storage_backend = "redis" /\ redis_client
    THEN (IF redis_up THEN RedisOutcomes ELSE {DownOutcome})
    ELSE {OkOutcome}

\* The number of calls an outcome makes fail.
Failures(oc) ==
    (IF oc.pipe # "ok" THEN 1 ELSE 0) + (IF oc.zrange # "ok" THEN 1 ELSE 0)

\* One check_rate_limit call (lines 128-183).  While the server can be
\* reached, at most MaxFailures calls to it fail, and a ZRANGE that is chosen
\* to fail is one that is made.
CheckedRequest(identifiers, endpoints) ==
    /\ nreq < MaxRequests
    /\ \E identifier \in identifiers, endpoint \in endpoints,
          ocm \in Outcomes, och \in Outcomes :
          /\ redis_up => nfail + Failures(ocm) + Failures(och) <= MaxFailures
          /\ CheckRateLimit(identifier, endpoint, ocm, och)
          /\ redis_up => nfail' = nfail + Failures(ocm) + Failures(och)
    /\ nreq' = nreq + 1
    /\ UNCHANGED <<now, config, nadv, frames, instances, middleware>>

\* A check_rate_limit call made outside the middleware.
RequestOn(identifiers, endpoints) ==
    CheckedRequest(identifiers, endpoints) /\ UNCHANGED http

Request == RequestOn(Identifiers, Endpoints)

\* The clock moves on between two calls: by just under a second, by a second,
\* and by a window length or one tick less.
Jumps == {Secs(1) - 1, Secs(1), Secs(MINUTE_WINDOW) - 1, Secs(MINUTE_WINDOW),
          Secs(HOUR_WINDOW) - 1, Secs(HOUR_WINDOW)}

Tick ==
    /\ nadv < MaxAdvances
    /\ \E d \in Jumps : now' = now + d
    /\ nadv' = nadv + 1
    /\ UNCHANGED <<config, memory_store, redis_store, last, admitted, oracle_store,
                   oracle_last, outage, nfail, nreq, frames, http, instances, middleware, granted, solo>>

Next == Request \/ Tick

Spec == Init /\ [][Next]_vars

\* A clock that only shows whole seconds: time.time() returns an integral
\* value at every call.
WholeJumps == {Secs(1), Secs(MINUTE_WINDOW) - Secs(1), Secs(MINUTE_WINDOW),
               Secs(HOUR_WINDOW)}

TickWhole ==
    /\ nadv < MaxAdvances
    /\ \E d \in WholeJumps : now' = now + d
    /\ nadv' = nadv + 1
    /\ UNCHANGED <<config, memory_store, redis_store, last, admitted, oracle_store,
                   oracle_last, outage, nfail, nreq, frames, http, instances, middleware, granted, solo>>

NextWholeSeconds == Request \/ TickWhole

SpecWholeSeconds == Init /\ [][NextWholeSeconds]_vars

\* check_rate_limit (lines 128-183) called on one of the limiters of the
\* process: it reads and writes the dict its _memory_store refers to.
InstanceCheck ==
    /\ nreq < MaxRequests
    /\ \E name \in InstanceNames, identifier \in Identifiers, endpoint \in Endpoints :
       \E address \in {instances.store_of[name]} :
       \E o \in {OracleCheck(instances.dicts[address], identifier, endpoint, now)} :
       \E s \in {OracleCheck(instances.solo[name], identifier, endpoint, now)} :
          instances' = [instances EXCEPT !.dicts[address] = o.store,
                                         !.last[name] = o.decision,
                                         !.solo[name] = s.store,
                                         !.solo_last[name] = s.decision,
                                         !.caller = name]
    /\ nreq' = nreq + 1
    /\ UNCHANGED <<now, config, memory_store, redis_store, last, admitted, oracle_store,
                   oracle_last, outage, nfail, nadv, frames, http, middleware, granted, solo>>

InitInstances == Init /\ storage_backend = "memory"

NextInstances == InstanceCheck \/ Tick

SpecInstances == InitInstances /\ [][NextInstances]_vars

\* Requests of several clients on several paths: identities as
\* _get_client_identifier returns them for the X-User-ID values "a" and
\* "a:/x", and the paths "/y" and "/x:/y".
KeyIdentifiers == {"user:a", "user:a:/x"}
KeyEndpoints == {"/y", "/x:/y"}

RequestAny == RequestOn(KeyIdentifiers, KeyEndpoints)

InitKeys == Init /\ storage_backend = "memory"

NextKeys == RequestAny \/ Tick

SpecKeys == InitKeys /\ [][NextKeys]_vars

\* ------------------------------------------ requests and their identities
\* The characters of header values: a digit, the separator, a blank.
HeaderChars == {"7", ",", " "}

RECURSIVE StringsUpTo(_)
StringsUpTo(n) ==
    IF n = 0 THEN {""}
    ELSE LET S == StringsUpTo(n - 1) IN S \cup {s \o c : s \in S, c \in HeaderChars}

HeaderValues == StringsUpTo(MaxHeaderLen)

\* The headers of a request: each of the two present or not.
HeaderSets ==
    {<<>>} \cup {("X-User-ID" :> u) : u \in HeaderValues}
           \cup {("X-Forwarded-For" :> f) : f \in HeaderValues}
           \cup {("X-User-ID" :> u) @@ ("X-Forwarded-For" :> f) :
                     u \in HeaderValues, f \in HeaderValues}

IdentityRequests ==
    {[path |-> "/api/v1/agents/", headers |-> h, client |-> c] :
        h \in HeaderSets, c \in {None, Some("9.9.9.9")}}

\* check_rate_limit derives the identity of a request (line 140).
Derive ==
    /\ http.phase = "idle"
    /\ \E request \in IdentityRequests :
          http' = [IdleHttp EXCEPT !.phase = "identified", !.request = request,
                                   !.identity = GetClientIdentifier(request)]
    /\ UNCHANGED <<now, config, memory_store, redis_store, last, admitted, oracle_store,
                   oracle_last, outage, nfail, nreq, nadv, frames, instances, middleware, granted, solo>>

InitIdentity ==
    Init /\ storage_backend = "memory" /\ requests_per_minute = 1 /\ requests_per_hour = 1

NextIdentity == Derive

SpecIdentity == InitIdentity /\ [][NextIdentity]_vars

\* ------------------------------------------------- RateLimitMiddleware
\* path.startswith(prefix)
StartsWith(path, prefix) ==
    Len(prefix) <= Len(path) /\ SubSeq(path, 1, Len(prefix)) = prefix

\* lines 207-209: is_exempt
IsExempt(path) == \E exempt \in middleware.exempt_paths : StartsWith(path, exempt)

\* The requests the middleware is given.
MiddlewarePaths == {"/health", "/docs/oauth2-redirect", "/api/v1/agents/", "/api/health"}
MiddlewareRequests ==
    {[path |-> p, headers |-> h, client |-> Some("9.9.9.9")] :
        p \in MiddlewarePaths, h \in {("X-User-ID" :> "7")}}

\* What call_next(request) returns: the status of the downstream response.
DownstreamStatuses == {200, 500}

\* The rest of the state, which a step of dispatch outside check_rate_limit
\* leaves alone.
LimiterState == <<now, config, memory_store, redis_store, last, admitted, oracle_store,
                  oracle_last, outage, nfail, nreq, nadv, frames, instances, middleware, granted, solo>>

\* dispatch(request, call_next) is entered.
Receive ==
    /\ http.phase \in {"idle", "forwarded", "rejected"}
    /\ http.served < MaxServed
    /\ \E request \in MiddlewareRequests :
          http' = [IdleHttp EXCEPT !.phase = "received", !.request = request,
                                   !.served = http.served + 1]
    /\ UNCHANGED LimiterState

\* line 213, the test succeeding: the path is exempt.
Bypass ==
    /\ http.phase = "received"
    /\ IsExempt(http.request.path)
    /\ http' = [http EXCEPT !.phase = "exempt"]
    /\ UNCHANGED LimiterState

\* line 217: is_allowed, rate_limit_info = self.rate_limiter.check_rate_limit(request)
Evaluate ==
    /\ http.phase = "received"
    /\ ~IsExempt(http.request.path)
    /\ \E identity \in {GetClientIdentifier(http.request)} :
          /\ CheckedRequest({identity}, {http.request.path})
          /\ http' = [http EXCEPT !.phase = "evaluated", !.identity = identity,
                         !.evaluations = @ + 1,
                         !.decision = [allowed |-> last'.allowed, limit |-> last'.limit,
                                       remaining |-> last'.remaining,
                                       reset |-> last'.reset]]

\* What call_next(request) ends with: a response, an exception of the
\* downstream handler, or the cancellation of the request while dispatch
\* awaits it.
DownstreamOutcomes == {"response", "exception", "cancelled"}

\* lines 226-228 and 236-238: the three quota headers, each str(...) of a
\* figure of rate_limit_info.
QuotaHeaders(info) ==
    ("X-RateLimit-Limit" :> ToString(info.limit))
        @@ ("X-RateLimit-Remaining" :> ToString(info.remaining))
        @@ ("X-RateLimit-Reset" :> ToString(info.reset))

\* line 222: the content of the 429 response.
RejectionBody(info) ==
    "{\"detail\": \"Rate limit exceeded. Limit: " \o ToString(info.limit)
        \o ", Reset at: " \o ToString(info.reset) \o "\"}"

\* line 229: rate_limit_info["reset"] - int(time.time())
RetryAfter(info, current_time) == info.reset - IntOf(current_time)

\* A 429 response without Retry-After.
RejectionHeadersWithoutRetryAfter(info, current_time) == QuotaHeaders(info)

\* lines 225-229: the headers of the 429 response.
RejectionHeaders(info, current_time) ==
    QuotaHeaders(info) @@ ("Retry-After" :> ToString(RetryAfter(info, current_time)))

\* A dispatch that stamps every response it returns.
ForwardedHeadersAlways(h) == QuotaHeaders(h.decision)

\* lines 214 and 236-240: what dispatch adds to the response call_next
\* returned: nothing for an exempt path, the quota headers otherwise.
ForwardedHeaders(h) ==
    IF h.phase = "exempt" THEN <<>> ELSE QuotaHeaders(h.decision)

\* A dispatch that passes every request on.
MayForwardAnyway(h) == h.phase \in {"exempt", "evaluated"}

\* lines 214 and 219/233: the request goes to call_next when it is exempt or
\* was allowed.
MayForward(h) == h.phase = "exempt" \/ (h.phase = "evaluated" /\ h.decision.allowed)

\* lines 214 and 233-240: response = await call_next(request).  A response
\* that call_next returns is stamped (lines 236-238) and returned; an exception
\* or a cancellation leaves dispatch at the await, and no later line runs.
CallNext ==
    /\ MayForward(http)
    /\ \E status \in DownstreamStatuses, outcome \in DownstreamOutcomes :
          http' = [http EXCEPT !.phase = "forwarded", !.forwards = @ + 1,
                               !.status = IF outcome = "response" THEN status ELSE 0,
                               !.raised = outcome # "response",
                               !.outcome = outcome,
                               !.headers = IF outcome = "response"
                                           THEN ForwardedHeaders(http) ELSE <<>>]
    /\ UNCHANGED LimiterState

\* lines 219-230: the 429 response.
Reject ==
    /\ http.phase = "evaluated"
    /\ ~http.decision.allowed
    /\ http' = [http EXCEPT !.phase = "rejected", !.status = 429,
                             !.body = RejectionBody(http.decision),
                             !.headers = RejectionHeaders(http.decision, now)]
    /\ UNCHANGED LimiterState

\* The clock of a run of the middleware, between the check of one request
\* and the check of the next: it moves on by just under a second, or by one
\* tick less than the minute window.
MiddlewareJumps == {Secs(1) - 1, Secs(MINUTE_WINDOW) - 1}

MiddlewareTick ==
    /\ http.phase # "evaluated"
    /\ nadv < MaxAdvances
    /\ \E d \in MiddlewareJumps : now' = now + d
    /\ nadv' = nadv + 1
    /\ UNCHANGED <<config, memory_store, redis_store, last, admitted, oracle_store,
                   oracle_last, outage, nfail, nreq, frames, http, instances, middleware, granted, solo>>

\* Between line 217, where check_rate_limit read the clock, and line 229,
\* where dispatch reads it again, less than a second passes.
Pause ==
    /\ http.phase = "evaluated"
    /\ now = last.at
    /\ nadv < MaxAdvances + 1
    /\ now' = now + (Secs(1) - 1)
    /\ nadv' = nadv + 1
    /\ UNCHANGED <<config, memory_store, redis_store, last, admitted, oracle_store,
                   oracle_last, outage, nfail, nreq, frames, http, instances, middleware, granted, solo>>

InitMiddleware == Init

NextMiddleware ==
    Receive \/ Bypass \/ Evaluate \/ CallNext \/ Reject \/ MiddlewareTick \/ Pause

SpecMiddleware == InitMiddleware /\ [][NextMiddleware]_vars

\* line 40: redis.from_url(redis_url, decode_responses=True) sets no socket
\* timeout, so a call to a server that never answers (pipe.execute() at line
\* 110, zrange at line 115) does not return and raises nothing that line 124
\* could catch: check_rate_limit stays inside the call.
AwaitRedisForever ==
    /\ http.phase = "received"
    /\ ~IsExempt(http.request.path)
    /\ storage_backend = "redis" /\ redis_client /\ redis_up
    /\ http' = [http EXCEPT !.phase = "blocked"]
    /\ UNCHANGED LimiterState

\* A middleware whose limiter was built with the shared backend and a server
\* that accepts connections.
InitMiddlewareLive ==
    /\ Init
    /\ storage_backend = "redis" /\ redis_client /\ redis_up
    /\ requests_per_minute >= 1 /\ requests_per_hour >= 1

NextMiddlewareLive == NextMiddleware \/ AwaitRedisForever

\* Every step of dispatch that can be taken is taken in the end: the code of
\* dispatch runs on, a call to the server that is answered returns, and
\* call_next comes back.
SpecMiddlewareLive ==
    /\ InitMiddlewareLive /\ [][NextMiddlewareLive]_vars
    /\ WF_vars(Bypass) /\ WF_vars(Evaluate) /\ WF_vars(CallNext) /\ WF_vars(Reject)

\* The exempt_paths a middleware is constructed with: none given, the empty
\* list, and lists of prefixes.
ExemptArguments ==
    {None, Some({}), Some({"/api"}), Some({"/health"}), Some({"/api/v1", "/docs"})}

\* A middleware constructed with one of these, its limiter in-process.
InitExempt ==
    /\ InitRateLimiter
    /\ storage_backend = "memory"
    /\ requests_per_minute = 1 /\ requests_per_hour = 2
    /\ \E exempt_paths \in ExemptArguments :
          middleware = ConstructMiddleware(exempt_paths)

SpecExempt == InitExempt /\ [][NextMiddleware]_vars

\* Requests whose identity is derived while the stores hold timestamps: with
\* and without each header, with and without a peer address.
DerivationRequests ==
    {[path |-> "/api/v1/agents/", headers |-> h, client |-> c] :
        h \in {<<>>, ("X-User-ID" :> "7"), ("X-Forwarded-For" :> "7, 7"),
               ("X-User-ID" :> "7") @@ ("X-Forwarded-For" :> "7, 7")},
        c \in {None, Some("9.9.9.9")}}

\* line 140: _get_client_identifier(request), for one of these requests.
DeriveSome ==
    /\ http.phase = "idle"
    /\ \E request \in DerivationRequests :
          http' = [IdleHttp EXCEPT !.phase = "identified", !.request = request,
                                   !.identity = GetClientIdentifier(request)]
    /\ UNCHANGED LimiterState

\* _get_client_identifier called once more for the request in hand.
DeriveAgain ==
    /\ http.phase \in {"identified", "keyed"}
    /\ http' = [http EXCEPT !.phase = "rederived",
                            !.identity = GetClientIdentifier(http.request)]
    /\ UNCHANGED LimiterState

\* lines 143 and 151: _get_key(identifier, endpoint, "minute") and
\* _get_key(identifier, endpoint, "hour").
DeriveKeys ==
    /\ http.phase \in {"identified", "rederived"}
    /\ http.keys = <<>>
    /\ http' = [http EXCEPT !.phase = "keyed",
                            !.keys = <<GetKey(http.identity, http.request.path, "minute"),
                                       GetKey(http.identity, http.request.path, "hour")>>]
    /\ UNCHANGED LimiterState

\* Derivations between the check_rate_limit calls of a limiter, on either
\* backend.
InitDerivation == Init /\ requests_per_minute = 1 /\ requests_per_hour = 1

NextDerivation == DeriveSome \/ DeriveAgain \/ DeriveKeys \/ Request

SpecDerivation == InitDerivation /\ [][NextDerivation]_vars

\* ------------------------------------------- threads in _check_limit_memory
\* _check_limit_memory holds no lock: a thread can be preempted between any
\* two statements, and inside a statement between reading the store and
\* writing it back.  Each action below is one such step of thread t.

\* A thread enters _check_limit_memory(key, limit, window_seconds).
Call(t) ==
    /\ frames[t].pc = "idle"
    /\ nreq < MaxCalls
    /\ \E identifier \in Identifiers, endpoint \in Endpoints, window \in Windows :
          frames' = [frames EXCEPT ![t] =
              [IdleFrame EXCEPT !.pc = "l70",
                  !.key = GetKey(identifier, endpoint, window),
                  !.window = window,
                  !.limit = IF window = "minute" THEN requests_per_minute
                            ELSE requests_per_hour,
                  !.window_seconds = WindowSeconds(window)]]
    /\ nreq' = nreq + 1
    /\ UNCHANGED <<now, config, memory_store, redis_store, last, admitted,
                   oracle_store, oracle_last, outage, nfail, nadv, http, instances, middleware, granted, solo>>

\* The clock of a run with threads.
ThreadJumps == {Secs(1) - 1, Secs(MINUTE_WINDOW)}

ThreadTick ==
    /\ nadv < MaxThreadAdvances
    /\ \E d \in ThreadJumps : now' = now + d
    /\ nadv' = nadv + 1
    /\ UNCHANGED <<config, memory_store, redis_store, last, admitted, oracle_store,
                   oracle_last, outage, nfail, nreq, frames, http, instances, middleware, granted, solo>>

ThreadFrame == <<now, config, redis_store, last, oracle_store, oracle_last, outage,
                 nfail, nreq, nadv, http, instances, middleware, granted, solo>>

\* line 70
ReadClock(t) ==
    /\ frames[t].pc = "l70"
    /\ frames' = [frames EXCEPT ![t].current_time = now, ![t].pc = "l72"]
    /\ UNCHANGED <<ThreadFrame, memory_store, admitted>>

\* line 72
TestKey(t) ==
    /\ frames[t].pc = "l72"
    /\ frames' = [frames EXCEPT ![t].pc =
                     IF frames[t].key \in DOMAIN memory_store THEN "l77" ELSE "l73"]
    /\ UNCHANGED <<ThreadFrame, memory_store, admitted>>

\* line 73
CreateKey(t) ==
    /\ frames[t].pc = "l73"
    /\ memory_store' = (frames[t].key :> <<>>) @@ memory_store
    /\ frames' = [frames EXCEPT ![t].pc = "l77"]
    /\ UNCHANGED <<ThreadFrame, admitted>>

\* lines 77-80, the list comprehension: reads the stored list
FilterList(t) ==
    /\ frames[t].pc = "l77"
    /\ frames' = [frames EXCEPT
          ![t].pruned = PruneMemory(memory_store, frames[t].key,
                            frames[t].window_seconds, frames[t].current_time)[frames[t].key],
          ![t].pc = "l77w"]
    /\ UNCHANGED <<ThreadFrame, memory_store, admitted>>

\* line 77, the assignment: stores the filtered list
StoreList(t) ==
    /\ frames[t].pc = "l77w"
    /\ memory_store' = [memory_store EXCEPT ![frames[t].key] = frames[t].pruned]
    /\ frames' = [frames EXCEPT ![t].pc = "l83"]
    /\ UNCHANGED <<ThreadFrame, admitted>>

\* line 83
CountList(t) ==
    /\ frames[t].pc = "l83"
    /\ frames' = [frames EXCEPT
          ![t].request_count = Len(memory_store[frames[t].key]), ![t].pc = "l84"]
    /\ UNCHANGED <<ThreadFrame, memory_store, admitted>>

\* line 84
TestLimit(t) ==
    /\ frames[t].pc = "l84"
    /\ frames' = [frames EXCEPT ![t].pc =
          IF LimitExceeded(frames[t].request_count, frames[t].limit) THEN "l86" ELSE "l91"]
    /\ UNCHANGED <<ThreadFrame, memory_store, admitted>>

\* lines 86-88: return False
ReturnRejected(t) ==
    /\ frames[t].pc = "l86"
    /\ frames' = [frames EXCEPT ![t] = IdleFrame]
    /\ UNCHANGED <<ThreadFrame, memory_store, admitted>>

\* lines 91-92: append and return True
AppendAndReturn(t) ==
    /\ frames[t].pc = "l91"
    /\ memory_store' = [memory_store EXCEPT ![frames[t].key] =
                            Append(@, frames[t].current_time)]
    /\ admitted' = Append(admitted, [key |-> frames[t].key, window |-> frames[t].window,
                                     at |-> frames[t].current_time])
    /\ frames' = [frames EXCEPT ![t] = IdleFrame]
    /\ UNCHANGED ThreadFrame

InitThreads == Init /\ storage_backend = "memory"

NextThreads ==
    \/ \E t \in Threads :
          \/ Call(t)
          \/ ReadClock(t)
          \/ TestKey(t)
          \/ CreateKey(t)
          \/ FilterList(t)
          \/ StoreList(t)
          \/ CountList(t)
          \/ TestLimit(t)
          \/ ReturnRejected(t)
          \/ AppendAndReturn(t)
    \/ ThreadTick

SpecThreads == InitThreads /\ [][NextThreads]_vars

\* ================================================================ claims
KeyLimit(window) ==
    IF window = "minute" THEN requests_per_minute ELSE requests_per_hour

\* The admissions of `key` whose clock value t satisfies lo <= t < hi.
AdmittedIn(key, lo, hi) ==
    {j \in DOMAIN admitted :
        admitted[j].key = key /\ lo <= admitted[j].at /\ admitted[j].at < hi}

\* No span of W seconds [t, t + W) that starts at an admission holds more
\* than L admissions of one key.
SpanBound ==
    \A i \in DOMAIN admitted :
        LET e == admitted[i]
        IN Cardinality(AdmittedIn(e.key, e.at, e.at + Secs(WindowSeconds(e.window))))
              <= KeyLimit(e.window)

\* The same, for the spans whose admissions were made in different clock seconds.
SpanBoundDistinctSeconds ==
    \A i \in DOMAIN admitted :
        LET e == admitted[i]
            S == AdmittedIn(e.key, e.at, e.at + Secs(WindowSeconds(e.window)))
        IN (\A j, k \in S : j # k => IntOf(admitted[j].at) # IntOf(admitted[k].at))
              => Cardinality(S) <= KeyLimit(e.window)

\* The timestamps of `key` the in-process store counts at clock `at`.
LiveMemory(store, key, window, at) ==
    IF key \in DOMAIN store
    THEN SelectSeq(store[key], LAMBDA t : t > at - Secs(WindowSeconds(window)))
    ELSE <<>>

\* The scores of `key` the shared store counts at clock `at`.
LiveRedis(red, key, window, at) ==
    {s \in RedisMembers(red, key, at) : s > IntOf(at) - WindowSeconds(window)}

\* The number of admissions of the key of the last call's window w that lie
\* in the W seconds ending at that call, the call's own included.
AdmittedInLastWindow(w) ==
    Cardinality(AdmittedIn(last[w].key, last.at - Secs(WindowSeconds(w)) + 1, last.at + 1))

\* C1: in-process backend, sequential calls: a window check is rejected only
\* when L admissions of its key lie in the W seconds ending at the call, it is
\* allowed whenever fewer do, and no W-second span [t, t + W) ever holds more
\* than L admissions of one key.
C1_BoundaryExactness ==
    storage_backend = "memory" =>
        /\ SpanBound
        /\ \A w \in Windows :
              last[w].ran =>
                 IF last[w].allowed
                 THEN AdmittedInLastWindow(w) <= KeyLimit(w)
                 ELSE AdmittedInLastWindow(w) = KeyLimit(w)

\* C1 witness: with a limit of 2, the third call inside the minute is rejected
\* after two were admitted.
C1_Witness ==
    /\ storage_backend = "memory"
    /\ requests_per_minute = 2
    /\ last.minute.ran /\ ~last.minute.allowed
    /\ AdmittedInLastWindow("minute") = 2

\* Both limits admit something.
PositiveLimits == requests_per_minute >= 1 /\ requests_per_hour >= 1

\* The keys of the model with the window each belongs to.
KeyWindows ==
    {<<GetKey(i, e, w), w>> : i \in Identifiers, e \in Endpoints, w \in Windows}

\* C2: in-process backend, concurrent callers: whatever the interleaving of
\* the threads inside _check_limit_memory, the list stored for a key never
\* holds more than L timestamps and no W-second span holds more than L
\* admissions of the key (of two calls that find one slot left, one at most
\* is admitted).
C2_AtomicPerKey ==
    PositiveLimits =>
        /\ \A kw \in KeyWindows :
              kw[1] \in DOMAIN memory_store
                 => Len(memory_store[kw[1]]) <= KeyLimit(kw[2])
        /\ SpanBound

\* The store that decided window w of the call made by this step held, before
\* the call, this many live timestamps of the key.
CountBefore(w) ==
    IF last'[w].via = "redis"
    THEN Cardinality(LiveRedis(redis_store, last'[w].key, w, now))
    ELSE Len(LiveMemory(memory_store, last'[w].key, w, now))

\* The live timestamps of the key in that store are the same after the call.
LiveUnchanged(w) ==
    IF last'[w].via = "redis"
    THEN LiveRedis(redis_store', last'[w].key, w, now)
            = LiveRedis(redis_store, last'[w].key, w, now)
    ELSE LiveMemory(memory_store', last'[w].key, w, now)
            = LiveMemory(memory_store, last'[w].key, w, now)

\* The live timestamps of the key in that store are, after the call, those
\* of before and one new timestamp, the clock value of the call.
LiveGainedOne(w) ==
    IF last'[w].via = "redis"
    THEN /\ IntOf(now) \notin LiveRedis(redis_store, last'[w].key, w, now)
         /\ LiveRedis(redis_store', last'[w].key, w, now)
               = LiveRedis(redis_store, last'[w].key, w, now) \cup {IntOf(now)}
    ELSE LiveMemory(memory_store', last'[w].key, w, now)
            = Append(LiveMemory(memory_store, last'[w].key, w, now), now)

\* This step is a check_rate_limit call that ran the check of window w.
Checked(w) == last'.n # last.n /\ last'[w].ran /\ last'[w].via # "none"

\* C3: on both backends a check that finds count_before >= limit returns
\* allowed = false and count_after = count_before, and leaves the live
\* timestamps stored for the key as they were (stated for limits >= 1).
C3_RejectedRecordsNothing ==
    [][\A w \in Windows :
          (PositiveLimits /\ Checked(w) /\ CountBefore(w) >= KeyLimit(w)) =>
              /\ ~last'[w].allowed
              /\ last'[w].count = CountBefore(w)
              /\ LiveUnchanged(w)]_vars

\* C4: shared backend without failures: no W-second span holds more than L
\* admissions of one key, whatever the arrival pattern (stated for limits >= 1).
C4_SharedBoundaryExactness ==
    (storage_backend = "redis" /\ redis_client /\ redis_up /\ nfail = 0
        /\ PositiveLimits) => SpanBound

\* C5: with limits >= 1, after a check of a window was rejected with reset
\* epoch R, the next check of that window, when made at a clock value > R,
\* is allowed.
C5_BlockEndsAfterReset ==
    [][\A w \in Windows :
          (/\ Checked(w) /\ last[w].ran /\ last'[w].key = last[w].key
           /\ ~last[w].allowed /\ PositiveLimits
           /\ now > Secs(last[w].reset)) => last'[w].allowed]_vars

\* The window whose figures a rejection reports.
RejectingWindow == IF ~last.minute.allowed THEN "minute" ELSE "hour"

\* The oldest timestamp (in ticks) that the store that decided window w of
\* the last call holds for the key; the clock value of the call if none.
OldestStored(w) ==
    IF last[w].via = "redis"
    THEN Secs(Min(redis_store[last[w].key].members))
    ELSE IF memory_store[last[w].key] # <<>> THEN Min(Range(memory_store[last[w].key]))
         ELSE last.at

Rejected == last.n > 0 /\ ~last.raised /\ ~last.allowed

C7_OnlyWindowsWithRoomRecord ==
    [][(last'.n # last.n /\ PositiveLimits) =>
          \A w \in Windows :
             /\ Checked(w)
             /\ IF CountBefore(w) < KeyLimit(w) THEN LiveGainedOne(w)
                ELSE LiveUnchanged(w)]_vars

\* C8: a window check in which a shared-backend call failed returns what the
\* in-process check returns for that invocation, and no exception leaves
\* check_rate_limit.
C8_FallbackOnFailure ==
    [][last'.n # last.n =>
          /\ ~last'.raised
          /\ \A w \in Windows :
                (last'[w].ran /\ last'[w].failed) =>
                   LET r == CheckLimitMemory(memory_store, last'[w].key, KeyLimit(w),
                                             WindowSeconds(w), now)
                   IN /\ last'[w].via = "memory"
                      /\ last'[w].allowed = r.allowed
                      /\ last'[w].count = r.count
                      /\ last'[w].reset = r.reset
                      /\ memory_store'[last'[w].key] = r.store[last'[w].key]]_vars

\* C8 witness: a shared-backend call failed in both window checks of a call,
\* one of them after the pipeline had answered, and the in-process checks
\* admitted the request.
C8_Witness ==
    /\ last.n > 0 /\ last.minute.failed /\ last.hour.failed
    /\ last.minute.via = "memory" /\ last.hour.via = "memory" /\ last.allowed
    /\ ~outage

\* The QuotaDecision of the last call.
LastDecision ==
    [allowed |-> last.allowed, limit |-> last.limit, remaining |-> last.remaining,
     reset |-> last.reset]

\* C9: as long as every shared-backend call has failed, each decision of a
\* limiter configured with the shared backend is the decision of the
\* in-process limiter fed the same requests at the same clock values.
C9_OutageMatchesOracle ==
    (storage_backend = "redis" /\ outage /\ last.n > 0) =>
        ~last.raised /\ LastDecision = oracle_last

\* C9 witness: the server is down and the fourth request is rejected.
C9_Witness ==
    /\ storage_backend = "redis" /\ redis_client /\ ~redis_up /\ outage
    /\ last.n = MaxRequests /\ ~last.allowed /\ requests_per_minute >= 1

\* C10: shared backend with intermittent failures: no W-second span holds
\* more than L admissions of one key, counting the admissions of both stores
\* (stated for limits >= 1 and admissions made in different clock seconds).
C10_IntermittentBound ==
    (storage_backend = "redis" /\ PositiveLimits) => SpanBoundDistinctSeconds

\* The whole-second timestamps (in ticks) that the in-process limiter run
\* alongside counts for `key` at the current clock.
OracleLive(key, window) == Range(LiveMemory(oracle_store, key, window, now))

\* The scores the shared store counts for `key` at the current clock, in ticks.
SharedLive(key, window) == {Secs(s) : s \in LiveRedis(redis_store, key, window, now)}

\* C11: on failure-free runs with a whole-second clock and limits >= 1, the
\* shared backend returns at every call the decision the in-process limiter
\* returns for the same calls, and holds the same live timestamps per key.
C11_BackendsIdentical ==
    (storage_backend = "redis" /\ redis_client /\ redis_up /\ nfail = 0
        /\ PositiveLimits /\ last.n > 0) =>
        /\ LastDecision = oracle_last
        /\ \A kw \in KeyWindows : SharedLive(kw[1], kw[2]) = OracleLive(kw[1], kw[2])

\* The last call returned a decision.
Decided == last.n > 0 /\ ~last.raised

\* C12: the verdict of check_rate_limit is the conjunction of its two window
\* checks.
C12_VerdictIsConjunction ==
    Decided => (last.allowed <=> (last.minute.allowed /\ last.hour.allowed))

\* C12 witness: the minute window allowed the request, the hour window did
\* not, and the request was rejected.
C12_Witness ==
    Decided /\ last.minute.allowed /\ ~last.hour.allowed /\ ~last.allowed

\* The figures of window w of the last call: its limit, max(0, limit -
\* count_after) and its reset.
Figures(w) ==
    [limit |-> KeyLimit(w), remaining |-> Max0(0, KeyLimit(w) - last[w].count),
     reset |-> last[w].reset]

\* The limit, remaining and reset the last call reported.
Reported == [limit |-> last.limit, remaining |-> last.remaining, reset |-> last.reset]

\* C13: the reported figures are the minute window's if it rejected, else the
\* hour window's if it rejected, else the minute window's, with remaining =
\* max(0, limit - count_after) of the reported window.
C13_BindingSelection ==
    Decided =>
        Reported = IF ~last.minute.allowed THEN Figures("minute")
                   ELSE IF ~last.hour.allowed THEN Figures("hour")
                   ELSE Figures("minute")

\* C13 witness: both windows rejected, their limits differ, and the minute
\* window's figures were reported.
C13_Witness ==
    /\ Decided /\ ~last.minute.allowed /\ ~last.hour.allowed
    /\ requests_per_minute # requests_per_hour
    /\ PositiveLimits
    /\ Reported = Figures("minute")

\* C14: remaining is never negative in a decision check_rate_limit returns.
C14_RemainingNonNegative == Decided => last.remaining >= 0

\* C14 witness: a rejection whose window counted more requests than its
\* limit, reported with remaining 0.
C14_Witness ==
    /\ Decided /\ ~last.minute.allowed /\ PositiveLimits
    /\ last.minute.count > requests_per_minute
    /\ last.remaining = 0

\* The window whose figures the last decision reports.
ReportedWindow == IF last.allowed THEN "minute" ELSE RejectingWindow

\* C15 as stated, up to the fraction of a second: the reset epoch of every
\* decision is the oldest timestamp counted in the reported window plus W.
C15_ResetOfOldestLive ==
    (Decided /\ PositiveLimits) =>
        last.reset = IntOf(OldestStored(ReportedWindow)
                              + Secs(WindowSeconds(ReportedWindow)))

\* C15 (amended): the reset epoch of a rejection is int(oldest + W) for the
\* oldest timestamp held for the key of the rejecting window; the reset epoch
\* of an admission is int(now + 60), the time at which the request just
\* recorded leaves the minute window.
C15_ResetByVerdict ==
    Decided =>
        last.reset = IF last.allowed
                     THEN IntOf(last.at + Secs(MINUTE_WINDOW))
                     ELSE IntOf(OldestStored(RejectingWindow)
                                   + Secs(WindowSeconds(RejectingWindow)))

\* C15 witness: an admitted request that is not the only entry of its minute
\* window; its reset epoch is later than that of the oldest entry.
C15_Witness ==
    /\ Decided /\ last.allowed /\ last.minute.via = "memory"
    /\ Len(memory_store[last.minute.key]) = 2
    /\ last.reset > IntOf(OldestStored("minute") + Secs(MINUTE_WINDOW))

\* The count_before the check of window w made by this step decided on.
CountSeen(w) == IF last'[w].allowed THEN last'[w].count - 1 ELSE last'[w].count

\* The number of timestamps t with now - W <= t <= now that the store that
\* decided window w of this step's call held for the key before the call.
ClosedLiveBefore(w) ==
    IF last'[w].via = "redis"
    THEN Cardinality({s \in RedisMembers(redis_store, last'[w].key, now) :
                         s >= IntOf(now) - WindowSeconds(w)})
    ELSE IF last'[w].key \in DOMAIN memory_store
         THEN Len(SelectSeq(memory_store[last'[w].key],
                            LAMBDA t : t >= now - Secs(WindowSeconds(w))))
         ELSE 0

\* C16: at every check the timestamps counted as live for the key are the
\* recorded ones with now - W <= t <= now; one recorded exactly W before now
\* is still counted.
C16_ClosedWindow ==
    [][\A w \in Windows : Checked(w) => CountSeen(w) = ClosedLiveBefore(w)]_vars

\* The (identity, endpoint, window) triple of window w of a call.
Triple(call, w) == <<call.identifier, call.endpoint, w>>

\* C17: the storage key is a function of (identity, endpoint, window): two
\* consecutive calls use equal keys for equal triples and different keys for
\* triples that differ, identities and paths with ':' included.
C17_KeyInjective ==
    [][(last.n > 0 /\ last'.n = last.n + 1) =>
          \A w1, w2 \in Windows :
             (Triple(last, w1) = Triple(last', w2)) <=> (last[w1].key = last'[w2].key)]_vars

\* The request of the state has had its identity derived.
Identified == http.phase = "identified"

UserIdHeader == HeadersGet(http.request.headers, "X-User-ID")
ForwardedForHeader == HeadersGet(http.request.headers, "X-Forwarded-For")

\* The text s holds no character c.
Without(s, c) == \A i \in 1..Len(s) : SubSeq(s, i, i) # c

\* The text s is blank or empty.
Blank(s) == \A i \in 1..Len(s) : SubSeq(s, i, i) = " "

\* e is raw without the blanks around it.
IsTrimOf(e, raw) ==
    \E a, b \in 0..Len(raw) :
       /\ a + b <= Len(raw)
       /\ Blank(SubSeq(raw, 1, a))
       /\ Blank(SubSeq(raw, Len(raw) - b + 1, Len(raw)))
       /\ e = SubSeq(raw, a + 1, Len(raw) - b)
       /\ e # "" => (SubSeq(e, 1, 1) # " " /\ SubSeq(e, Len(e), Len(e)) # " ")

\* e is the first comma-separated entry of chain, blanks around it removed.
IsFirstEntry(e, chain) ==
    \E i \in 0..Len(chain) :
       /\ Without(SubSeq(chain, 1, i), ",")
       /\ i = Len(chain) \/ SubSeq(chain, i + 1, i + 1) = ","
       /\ IsTrimOf(e, SubSeq(chain, 1, i))

\* The identity is "ip:" followed by address.
IsIp(address) == http.identity = "ip:" \o address

\* The identity is "ip:" followed by the first entry of the chain.
IsIpOfFirstEntry(chain) ==
    \E i \in 0..Len(chain), j \in 0..Len(chain) :
       i <= j /\ IsFirstEntry(SubSeq(chain, i + 1, j), chain)
              /\ IsIp(SubSeq(chain, i + 1, j))

\* The identity is "ip:" followed by the peer address of a request that
\* has one.
IsIpOfPeer == http.request.client # None => IsIp(http.request.client[1])

\* C18 as stated: X-User-ID present with value v gives "user:v"; otherwise
\* X-Forwarded-For present gives "ip:" and the first entry of the chain;
\* otherwise "ip:" and the peer address.
C18_IdentityByPresence ==
    Identified =>
        IF UserIdHeader # None THEN http.identity = "user:" \o UserIdHeader[1]
        ELSE IF ForwardedForHeader # None THEN IsIpOfFirstEntry(ForwardedForHeader[1])
        ELSE IsIpOfPeer

\* C18 (amended): the same with "present" read as "present and not empty";
\* without a peer address the identity is "ip:unknown".
C18_IdentityByNonEmpty ==
    Identified =>
        IF Truthy(UserIdHeader) THEN http.identity = "user:" \o UserIdHeader[1]
        ELSE IF Truthy(ForwardedForHeader) THEN IsIpOfFirstEntry(ForwardedForHeader[1])
        ELSE IF http.request.client # None THEN IsIp(http.request.client[1])
        ELSE IsIp("unknown")

\* C18 witness: an empty X-User-ID header, and a chain of two entries with
\* blanks; the identity is that of the first entry.
C18_Witness ==
    /\ Identified
    /\ UserIdHeader = Some("") /\ ForwardedForHeader = Some(" 7,")
    /\ http.request.client # None
    /\ http.identity = "ip:7"

\* C19: a request without X-User-ID and without a peer address, whose
\* X-Forwarded-For is absent, empty, blank or starts with an empty entry,
\* gets the identity "ip:unknown".
C19_UnknownWhenNoSource ==
    (/\ Identified /\ UserIdHeader = None /\ http.request.client = None
     /\ ForwardedForHeader # None => IsFirstEntry("", ForwardedForHeader[1]))
        => http.identity = "ip:unknown"

\* The step passes from phase p to phase q.
Passes(p, q) == http.phase = p /\ http'.phase = q

\* C20: each request goes RECEIVED -> (EXEMPT | EVALUATED) -> (FORWARDED |
\* REJECTED): an exempt request reaches call_next without the limiter having
\* been invoked, a request that is not exempt is evaluated once, and it is
\* passed to call_next once if allowed and never if rejected.
C20_RequestLifecycle ==
    [][/\ http'.phase # http.phase =>
             \/ Passes("idle", "received") \/ Passes("forwarded", "received")
             \/ Passes("rejected", "received")
             \/ Passes("received", "exempt") \/ Passes("received", "evaluated")
             \/ Passes("exempt", "forwarded") \/ Passes("evaluated", "forwarded")
             \/ Passes("evaluated", "rejected")
       /\ http'.phase = http.phase => http' = http
       /\ nreq' # nreq <=> Passes("received", "evaluated")
       /\ Passes("received", "exempt") =>
             IsExempt(http.request.path) /\ http'.evaluations = 0
       /\ Passes("received", "evaluated") =>
             ~IsExempt(http.request.path) /\ http'.evaluations = 1
                /\ http'.decision.allowed = last'.allowed
       /\ Passes("exempt", "forwarded") =>
             http'.evaluations = 0 /\ http'.forwards = 1
       /\ Passes("evaluated", "forwarded") =>
             http.decision.allowed /\ http'.evaluations = 1 /\ http'.forwards = 1
       /\ Passes("evaluated", "rejected") =>
             ~http.decision.allowed /\ http'.evaluations = 1 /\ http'.forwards = 0
                /\ http'.status = 429]_vars

\* C20 witness: the third request received was evaluated once and rejected
\* without having been passed to call_next.
C20_Witness ==
    /\ http.phase = "rejected" /\ http.served = 3
    /\ http.evaluations = 1 /\ http.forwards = 0
    /\ PositiveLimits

\* ------------------------------------------------ the responses of dispatch
QuotaHeaderNames == {"X-RateLimit-Limit", "X-RateLimit-Remaining", "X-RateLimit-Reset"}

\* The request dispatch is handling has an exempt path and has not been
\* passed to call_next yet.
ExemptInFlight == http.phase \in {"received", "exempt"} /\ IsExempt(http.request.path)

\* C21: a request whose path is exempt is never throttled: it is passed to
\* call_next without the limiter being invoked, the response goes back with no
\* X-RateLimit-* header added, and while it is handled neither store changes
\* (no key created, no timestamp recorded or pruned).
C21_ExemptBypass ==
    [][ExemptInFlight =>
          /\ memory_store' = memory_store
          /\ redis_store' = redis_store
          /\ http'.phase \in {"received", "exempt", "forwarded"}
          /\ http'.evaluations = 0
          /\ http'.phase = "forwarded" =>
                /\ http'.forwards = 1
                /\ DOMAIN http'.headers \cap QuotaHeaderNames = {}]_vars

\* C21 witness: the last evaluated request of the client was rejected by both
\* windows (limits >= 1), and the client's request to an exempt path has come
\* back from call_next with no header added.
C21_Witness ==
    /\ PositiveLimits /\ Rejected /\ ~last.minute.allowed /\ ~last.hour.allowed
    /\ http.phase = "forwarded" /\ http.outcome = "response"
    /\ IsExempt(http.request.path)
    /\ GetClientIdentifier(http.request) = last.identifier
    /\ http.evaluations = 0 /\ http.headers = <<>>

\* C22: every rejected request is answered with status 429, with headers
\* X-RateLimit-Limit (the limit of the rejecting window), X-RateLimit-Remaining
\* = 0, X-RateLimit-Reset (the reset epoch of the rejecting window) and
\* Retry-After, and with a body that names the limit and the reset of the
\* headers.
C22_RejectionResponse ==
    [][Passes("evaluated", "rejected") =>
          /\ http'.status = 429
          /\ DOMAIN http'.headers = QuotaHeaderNames \cup {"Retry-After"}
          /\ http'.headers["X-RateLimit-Limit"] = ToString(KeyLimit(RejectingWindow))
          /\ http'.headers["X-RateLimit-Remaining"] = "0"
          /\ http'.headers["X-RateLimit-Reset"] = ToString(last[RejectingWindow].reset)
          /\ http'.body = "{\"detail\": \"Rate limit exceeded. Limit: "
                             \o http'.headers["X-RateLimit-Limit"] \o ", Reset at: "
                             \o http'.headers["X-RateLimit-Reset"] \o "\"}"]_vars

\* C22 witness: a 429 response for a request that the hour window rejected
\* and the minute window allowed (limits >= 1).
C22_Witness ==
    /\ PositiveLimits /\ Rejected /\ last.minute.allowed
    /\ http.phase = "rejected" /\ http.status = 429
    /\ http.headers["X-RateLimit-Limit"] = ToString(requests_per_hour)
    /\ requests_per_hour # requests_per_minute

\* C23: Retry-After is max(0, reset_epoch - now), with now the whole second
\* the clock shows when the header is written: it is never negative (stated
\* for limits >= 1).
C23_RetryAfterFloored ==
    [][(Passes("evaluated", "rejected") /\ PositiveLimits) =>
          http'.headers["Retry-After"]
              = ToString(Max0(0, http.decision.reset - IntOf(now)))]_vars

\* C24: every allowed request of a non-exempt path ends with a response that
\* carries the three X-RateLimit headers of the decision made before the
\* request was passed on, whatever call_next ended with.
C24_AllowedResponseStamped ==
    [][Passes("evaluated", "forwarded") =>
          /\ DOMAIN http'.headers = QuotaHeaderNames
          /\ http'.headers["X-RateLimit-Limit"] = ToString(http.decision.limit)
          /\ http'.headers["X-RateLimit-Remaining"] = ToString(http.decision.remaining)
          /\ http'.headers["X-RateLimit-Reset"] = ToString(http.decision.reset)]_vars

\* The keys of the requests the middleware is given, each with its window.
MiddlewareKeyWindows ==
    {<<GetKey(GetClientIdentifier(r), r.path, w), w>> : r \in MiddlewareRequests, w \in Windows}

\* C25: once a timestamp is recorded nothing removes it but its age.  In every
\* step, whatever call_next ended with: the timestamps of a key that the
\* limiter would still count at the clock value after the step are all still
\* stored after it (in the in-process store in the same order, new ones
\* behind them); the limiter is invoked only when a received request is
\* evaluated, and once for a request.
C25_RecordedStays ==
    [][/\ memory_store' # memory_store =>
             \A kw \in MiddlewareKeyWindows :
                LET before == LiveMemory(memory_store, kw[1], kw[2], now')
                    after == LiveMemory(memory_store', kw[1], kw[2], now')
                IN Len(before) <= Len(after) /\ SubSeq(after, 1, Len(before)) = before
       /\ redis_store' # redis_store =>
             \A kw \in MiddlewareKeyWindows :
                LiveRedis(redis_store, kw[1], kw[2], now')
                    \subseteq LiveRedis(redis_store', kw[1], kw[2], now')
       /\ (nreq' # nreq \/ http'.evaluations > http.evaluations) =>
             /\ Passes("received", "evaluated")
             /\ nreq' = nreq + 1 /\ http.evaluations = 0 /\ http'.evaluations = 1]_vars

\* C25 witness: the request was allowed and recorded, call_next was cancelled
\* (or raised), and the timestamp of the request is in the store.
C25_Witness ==
    /\ http.phase = "forwarded" /\ http.outcome \in {"exception", "cancelled"}
    /\ http.evaluations = 1 /\ http.decision.allowed
    /\ last.minute.via = "memory"
    /\ last.at \in Range(memory_store[last.minute.key])
    /\ now > last.at

\* The last call was the k-th of a run of consecutive requests that started
\* with nothing stored, none of whose timestamps has left the minute window,
\* with k <= L + 1 for the minute limit L >= 1, an hour limit >= L, and no call
\* to a reachable shared backend having failed.
InRunOfRequests ==
    /\ Decided
    /\ requests_per_minute >= 1 /\ requests_per_minute <= requests_per_hour
    /\ last.at < Secs(MINUTE_WINDOW)
    /\ last.n <= requests_per_minute + 1
    /\ redis_up => nfail = 0

\* C26: with minute limit L, nothing expiring and the hour limit not binding,
\* the k-th consecutive request of a client to an endpoint (1 <= k <= L) is
\* allowed with remaining = L - k, and request L + 1 is rejected with
\* remaining = 0.
C26_RemainingSequence ==
    InRunOfRequests =>
        IF last.n <= requests_per_minute
        THEN last.allowed /\ last.remaining = requests_per_minute - last.n
        ELSE ~last.allowed /\ last.remaining = 0

\* C27: with the shared backend selected, every request of a non-exempt path
\* that dispatch has received is in the end forwarded or rejected, also when a
\* call to the shared backend is never answered.
C27_EveryRequestResolves ==
    (http.phase = "received" /\ ~IsExempt(http.request.path))
        ~> (http.phase \in {"forwarded", "rejected"})

\* The content of the dict that limiter `name` uses, in the objects `world`.
StoreOf(world, name) == world.dicts[world.store_of[name]]

\* C28: two RateLimiter objects with the in-process backend do not interfere:
\* a call on one leaves the store of the other as it was, and the store and
\* the decisions of each are those of a limiter that is alone and receives
\* that limiter's calls only.
C28_InstancesIndependent ==
    [][\A name \in InstanceNames :
          /\ StoreOf(instances', name) = instances'.solo[name]
          /\ instances'.last[name] = instances'.solo_last[name]
          /\ (instances' # instances /\ instances'.caller # name) =>
                StoreOf(instances', name) = StoreOf(instances, name)]_vars

\* C28 witness: with limits >= 1, limiter a has just rejected a request of a
\* client on an endpoint while limiter b, called before, allowed the same
\* client on the same endpoint at the same clock value.
C28_Witness ==
    /\ PositiveLimits
    /\ instances.caller = "a"
    /\ ~instances.last["a"].allowed /\ instances.last["a"].limit >= 1
    /\ instances.last["b"].allowed /\ instances.last["b"].limit >= 1
    /\ now \in Range(StoreOf(instances, "b")[GetKey("ip:1.2.3.4", "/api/v1/agents/", "minute")])

\* The keys of the requests of SpecKeys, each with its window.
AnyKeyWindows ==
    {<<GetKey(i, e, w), w>> : i \in KeyIdentifiers, e \in KeyEndpoints, w \in Windows}

\* The keys that the call of this step checked.
KeysOfCall == {last'.minute.key, last'.hour.key}

\* C29: in-process backend.  The store changes only in a check_rate_limit
\* call; the call changes only the lists of the keys it checks and leaves
\* every other key, stale timestamps included, as it was; and right after the
\* call the list of each key K it checked holds only timestamps t with
\* now - W < t <= now.
C29_LazyPurge ==
    [][/\ last'.n = last.n => memory_store' = memory_store
       /\ last'.n # last.n =>
             /\ DOMAIN memory_store' = DOMAIN memory_store \cup KeysOfCall
             /\ \A k \in DOMAIN memory_store \ KeysOfCall :
                   memory_store'[k] = memory_store[k]
             /\ \A w \in Windows :
                   \A t \in Range(memory_store'[last'[w].key]) :
                      now - Secs(WindowSeconds(w)) < t /\ t <= now]_vars

\* C29 witness: a call has just checked its keys and recorded the request in
\* the minute list, and another key still holds a timestamp that is outside
\* its window.
C29_Witness ==
    /\ last.n >= 2 /\ last.at = now
    /\ now \in Range(memory_store[last.minute.key])
    /\ \E kw \in AnyKeyWindows :
          /\ kw[1] \in DOMAIN memory_store
          /\ kw[1] \notin {last.minute.key, last.hour.key}
          /\ \E t \in Range(memory_store[kw[1]]) : t <= now - Secs(WindowSeconds(kw[2]))

\* C30: on both backends a check that finds count_before < limit records the
\* clock value of the call as a new timestamp of the key and returns allowed =
\* true, count_after = count_before + 1 and reset_epoch = now + W (up to the
\* fraction of a second that int() drops; stated for limits >= 1).
C30_AllowedRecordsNow ==
    [][\A w \in Windows :
          (PositiveLimits /\ Checked(w) /\ CountBefore(w) < KeyLimit(w)) =>
             /\ last'[w].allowed
             /\ last'[w].count = CountBefore(w) + 1
             /\ LiveGainedOne(w)
             /\ last'[w].reset = IntOf(now + Secs(WindowSeconds(w)))]_vars

\* The prefixes that are configured: those of the list the middleware was
\* given, the default ones when it was given none.
ConfiguredPrefixes ==
    IF middleware.exempt_argument = None THEN ExemptPaths
    ELSE middleware.exempt_argument[1]

\* C31: dispatch treats a request as exempt exactly if its path starts with
\* one of the configured prefixes; the default prefixes count only when no
\* list was given, so with the empty list no path is exempt.
C31_ExemptIffConfiguredPrefix ==
    [][(http.phase = "received" /\ http'.phase # "received") =>
          (http'.phase = "exempt" <=>
              \E prefix \in ConfiguredPrefixes : StartsWith(http.request.path, prefix))]_vars

\* C32: on both backends a check with limit <= 0 that finds no live timestamp
\* of the key rejects the request, records nothing and returns reset_epoch =
\* now + W (up to the fraction of a second that int() drops), and the call
\* does not raise.
C32_EmptyLiveSetFallback ==
    [][\A w \in Windows :
          (Checked(w) /\ KeyLimit(w) <= 0 /\ CountBefore(w) = 0) =>
             /\ ~last'.raised
             /\ ~last'[w].allowed
             /\ last'[w].count = 0
             /\ LiveUnchanged(w)
             /\ last'[w].reset = IntOf(now + Secs(WindowSeconds(w)))]_vars

GrantedIn(identifier, endpoint, window) ==
    {j \in DOMAIN granted :
        /\ granted[j].identifier = identifier /\ granted[j].endpoint = endpoint
        /\ granted[j].at > now - Secs(WindowSeconds(window))}

\* C34: in-process backend, sequential requests.  Every admitted request is
\* recorded in the list of its minute key and of its hour key, and for each
\* (client, endpoint) pair the requests admitted in the last 60 seconds are at
\* most requests_per_minute and those admitted in the last 3600 seconds at
\* most requests_per_hour.
C34_BothWindowsBound ==
    /\ (Decided /\ last.allowed) =>
          /\ last.at \in Range(memory_store[last.minute.key])
          /\ last.at \in Range(memory_store[last.hour.key])
    /\ \A i \in KeyIdentifiers, e \in KeyEndpoints, w \in Windows :
          Cardinality(GrantedIn(i, e, w)) <= KeyLimit(w)

\* C34 witness: a pair whose minute limit is 1 and whose hour limit is 2 has
\* had two requests admitted in the last hour, one of them in the last
\* minute, and its third request has just been rejected.
C34_Witness ==
    /\ requests_per_minute = 1 /\ requests_per_hour = 2
    /\ Decided /\ ~last.allowed /\ last.at = now
    /\ Cardinality(GrantedIn(last.identifier, last.endpoint, "hour")) = 2
    /\ Cardinality(GrantedIn(last.identifier, last.endpoint, "minute")) = 1

\* The list the in-process store holds for `key`.
StoredList(key) == IF key \in DOMAIN memory_store THEN memory_store[key] ELSE <<>>

\* C35: sequential checks, limit L >= 0 per key.  The list the in-process
\* store holds for a key never has more than L timestamps, and each timestamp
\* in it is the clock value of a check of the same key and window that
\* returned allowed (as often as it is in the list).
C35_StoreWithinLimit ==
    \A kw \in KeyWindows :
        LET list == StoredList(kw[1])
        IN /\ Len(list) <= KeyLimit(kw[2])
           /\ \A t \in Range(list) :
                 Cardinality({i \in DOMAIN list : list[i] = t})
                    <= Cardinality({j \in DOMAIN admitted :
                                      /\ admitted[j].key = kw[1]
                                      /\ admitted[j].window = kw[2]
                                      /\ admitted[j].at = t})

\* C35 witness: the list of a minute key with limit 2 holds two timestamps
\* with the same clock value, and the check after them was rejected.
C35_Witness ==
    /\ requests_per_minute = 2
    /\ Decided /\ ~last.minute.allowed /\ last.minute.via = "memory"
    /\ Len(StoredList(last.minute.key)) = 2
    /\ StoredList(last.minute.key)[1] = StoredList(last.minute.key)[2]

\* C36: the in-process store never loses a key.  A step never removes a key
\* from the mapping; a check_rate_limit call leaves its minute key and its
\* hour key in it, whether it allowed or rejected, and adds no other key; no
\* other step changes the set of keys.
C36_KeysOnlyGrow ==
    [][/\ DOMAIN memory_store \subseteq DOMAIN memory_store'
       /\ last'.n # last.n =>
             /\ KeysOfCall \subseteq DOMAIN memory_store'
             /\ DOMAIN memory_store' \subseteq DOMAIN memory_store \cup KeysOfCall
       /\ last'.n = last.n => DOMAIN memory_store' = DOMAIN memory_store]_vars

\* C36 witness: with limits >= 1, the request just checked was rejected and
\* its keys are in the mapping, and so is another key all of whose
\* timestamps are W seconds old or older.
C36_Witness ==
    /\ PositiveLimits /\ Decided /\ ~last.allowed /\ last.at = now
    /\ {last.minute.key, last.hour.key} \subseteq DOMAIN memory_store
    /\ \E kw \in AnyKeyWindows :
          /\ kw[1] \in DOMAIN memory_store
          /\ kw[1] \notin {last.minute.key, last.hour.key}
          /\ memory_store[kw[1]] # <<>>
          /\ \A t \in Range(memory_store[kw[1]]) : t <= now - Secs(WindowSeconds(kw[2]))

\* C37: requests that carry different X-User-ID values are counted against
\* separate quotas: a request is allowed by the in-process limiter exactly
\* when it is allowed by a limiter that was given the requests of that
\* identity only, at the same clock values.
C37_SeparateQuotas ==
    (storage_backend = "memory" /\ Decided) =>
        last.allowed = solo[last.identifier].decision.allowed

\* C38: shared backend: the expiry of a key never discards a timestamp that
\* is still live: every stored score the window still counts is a score of
\* the key as the server holds it, and a key that has expired holds only
\* scores that are at least window_seconds old.
C38_ExpiryKeepsLive ==
    \A kw \in KeyWindows :
        kw[1] \in DOMAIN redis_store =>
            /\ {s \in redis_store[kw[1]].members : s > IntOf(now) - WindowSeconds(kw[2])}
                   \subseteq RedisMembers(redis_store, kw[1], now)
            /\ now >= redis_store[kw[1]].expire_at =>
                   \A s \in redis_store[kw[1]].members :
                       now - Secs(s) >= Secs(WindowSeconds(kw[2]))

\* A key of the shared store has expired with timestamps in it, and the other
\* key of the same client has not.
C38_Witness ==
    /\ storage_backend = "redis" /\ redis_client /\ Decided
    /\ \E kw \in KeyWindows :
          /\ kw[1] \in DOMAIN redis_store
          /\ redis_store[kw[1]].members # {}
          /\ now >= redis_store[kw[1]].expire_at
    /\ \E kw \in KeyWindows :
          /\ kw[1] \in DOMAIN redis_store
          /\ now < redis_store[kw[1]].expire_at
          /\ LiveRedis(redis_store, kw[1], kw[2], now) # {}

====
